---- MODULE Spec2Model ----
(***************************************************************************)
(* Croquet DocView: the replicated PDFModel of pdf-viewer.js.              *)
(*                                                                         *)
(* The model handles the events it subscribes to (load:request,            *)
(* load:start, place:set, place:endInteraction, rotation:request,          *)
(* scrollMode:request, view-exit) one at a time, in one global order, and  *)
(* the future message checkInteractionStatus that a "place" grant          *)
(* schedules PLACE_TIMEOUT ms of virtual time ahead.                       *)
(***************************************************************************)
EXTENDS Integers, Sequences, FiniteSets, TLC

\* ------------------------------------------------------------------ bounds
MaxTime == 1500          \* virtual time is explored up to this instant
TimeStep == 500          \* largest advance of virtual time in one step
MaxInflight == 3         \* events on their way from the views to the model
MaxInbox == 2            \* events of the model a view has not handled yet
MaxOffset == 2000        \* largest scroll offset within a page, in pixels
MaxGestures == 4         \* mouse and scroll gestures of all users together
MaxViewTime == 1000      \* the views are explored up to this instant
MaxDrops == 3            \* files dropped by all users together
MaxCalls == 4            \* calls of throttledInvoke
MaxClock == 90           \* Date.now() is explored up to this ms

\* ------------------------------------------------------- program constants
PLACE_TIMEOUT == 1000
BUSY_TIMEOUT == 500      \* the suppression timer of setOrExtendBusyState
THROTTLE_MS == 33        \* the interval of schedulePublishPlace

\* --------------------------------------------------------------- inputs
Views == {"vA", "vB"}                 \* viewIds of the clients
Hashes == {"H1", "H2"}                \* source hashes of dropped files
Handles == {"d1", "d2"}               \* data handles returned by the store
Names == {"a.pdf"}                    \* file names
Rotations == {90}
ScrollModes == {1}
ClockSteps == {1, 16}                 \* ms between two steps of a view

\* a JavaScript undefined (missing property, empty object field)
Undefined == "undefined"
NoTime == 0 - 1

VARIABLES
    interactionStatus,   \* this.interactionStatus
    scroll,              \* this.scroll
    relativeScale,       \* this.relativeScale
    pagesRotation,       \* this.pagesRotation
    scrollMode,          \* this.scrollMode
    knownHandles,        \* this.knownHandles: sourceHash -> {handle, name}
    docSourceHash,       \* this.docSourceHash
    now,                 \* this.now(): the model's virtual time
    futures,             \* due times of the pending checkInteractionStatus
    lastMsg,             \* the message the model handled last
    published,           \* the events that handler published
    before,              \* interactionStatus when that handler started
    approvedHash,        \* sourceHash of the last load:approved published
    inflight,            \* events the views published, not yet handled
    inbox,               \* per view: events of the model, not yet handled
    view,                \* per view: the fields of its PDFView
    upload,              \* per view: its document and its FileUploader
    quant,               \* one offset on its way through the quantizer
    throttle             \* this.throttles.publishPlace of one view, its timers

vars == <<interactionStatus, scroll, relativeScale, pagesRotation, scrollMode,
          knownHandles, docSourceHash, now, futures, lastMsg, published,
          before, approvedHash, inflight, inbox, view, upload, quant,
          throttle>>

\* the state of the views and of what is between them and the model
clientVars == <<inflight, inbox, view, upload, quant, throttle>>

\* this.interactionStatus = {}
EmptyStatus ==
    [viewId |-> Undefined, lock |-> Undefined, sourceHash |-> Undefined,
     time |-> NoTime]

\* the place a view sends with place:set (publishPlaceIfNew)
Places ==
    { [page |-> 3, top |-> 0, left |-> 0, scale |-> "1.0", rotation |-> 0,
       scrollMode |-> 0],
      [page |-> 2, top |-> 12500, left |-> 0 - 40, scale |-> "1.5",
       rotation |-> 90, scrollMode |-> 1] }

getUserDescription(v) == "view " \o v

Min(S) == CHOOSE x \in S : \A y \in S : x <= y

\* the four place parameters, as one value
PlaceState ==
    [scroll |-> scroll, relativeScale |-> relativeScale,
     pagesRotation |-> pagesRotation, scrollMode |-> scrollMode]

\* the values resetPlaceParameters assigns
DefaultPlace ==
    [scroll |-> [top |-> 0, left |-> 0], relativeScale |-> "1",
     pagesRotation |-> 0, scrollMode |-> 0]

Event(scope, event, data) == [scope |-> scope, event |-> event, data |-> data]

\* lastPublishedPlace = null
NoPlace ==
    [page |-> 0, top |-> 0, left |-> 0, scale |-> Undefined, rotation |-> 0,
     scrollMode |-> 0]

\* a PDFView after its constructor: resetPlaceParameters, no drag, no
\* timer, the renderer at the top of the first page
InitialView ==
    [userIsActive |-> FALSE, trackingMouseDrag |-> FALSE,
     syncPlaceOnRelease |-> FALSE, suppressionTimer |-> NoTime,
     publishPlace |-> FALSE, localScale |-> 100, viewRelativeScale |-> "1.0",
     viewRotation |-> 0, viewScrollMode |-> 0, lastPublishedPlace |-> NoPlace,
     page |-> 1, top |-> 0, left |-> 0, interactionClash |-> FALSE,
     deferredUpdate |-> FALSE, gestures |-> 0]

\* a JavaScript null
Null == "null"

\* activeUploader = null
NoUploader == [id |-> 0, hash |-> Undefined, pdfHandle |-> Undefined]

\* docSourceHash = null, activeUploader = null, nothing being stored, no
\* call of getPDFHandle has returned
NoUpload ==
    [docSourceHash |-> Undefined, activeUploader |-> NoUploader,
     storing |-> {}, returned |-> {}, drops |-> 0]

NoQuant == [stage |-> "idle", x |-> 0, scale |-> 100, q |-> 0, back |-> 0]

\* no throttled invocation asked for yet: the entry of this.throttles (fn,
\* timeout, lastInvoke; 0 for a field that is not there), the timers of
\* the browser, Date.now() in ms since the view started, and what has
\* happened: calls of throttledInvoke, invocations, the call whose
\* function ran last and when
NoThrottle ==
    [fn |-> 0, timeout |-> 0, lastInvoke |-> 0, timers |-> {}, clock |-> 1,
     supplied |-> 0, invoked |-> 0, ran |-> 0, ranAt |-> NoTime]

\* the views after their constructors, nothing on its way
ClientsInit ==
    /\ inflight = <<>>
    /\ inbox = [v \in Views |-> <<>>]
    /\ view = [v \in Views |-> InitialView]
    /\ upload = [v \in Views |-> NoUpload]
    /\ quant = NoQuant
    /\ throttle = NoThrottle

\* ------------------------------------------------------------------ Init
\* the fields of the model and its clock
modelVars == <<interactionStatus, scroll, relativeScale, pagesRotation,
               scrollMode, knownHandles, docSourceHash, now, futures, lastMsg,
               published, before, approvedHash>>

\* PDFModel.init of a new session
ModelInit ==
    /\ interactionStatus = EmptyStatus
    /\ scroll = DefaultPlace.scroll
    /\ relativeScale = DefaultPlace.relativeScale
    /\ pagesRotation = DefaultPlace.pagesRotation
    /\ scrollMode = DefaultPlace.scrollMode
    /\ knownHandles = [h \in {} |-> Undefined]
    /\ docSourceHash = Undefined
    /\ now = 0
    /\ futures = {}
    /\ lastMsg = [op |-> "init"]
    /\ published = <<>>
    /\ before = EmptyStatus
    /\ approvedHash = Undefined

Init ==
    /\ ModelInit
    /\ ClientsInit

\* --------------------------------------------------- applyLockIfAvailable
\* variant: "place" is granted to the holder of any lock, "load" included
LockAvailable_AnyOwnLock(newLock, newViewId, sourceHash) ==
    CASE newLock = "place" ->
            ~ ( interactionStatus.viewId # Undefined
                /\ interactionStatus.viewId # newViewId )
      [] newLock = "load" ->
            ~ ( interactionStatus.lock = "load"
                /\ interactionStatus.sourceHash = sourceHash )

\* variant: "load" is also rejected while another view holds "place"
LockAvailable_PlaceBlocksLoad(newLock, newViewId, sourceHash) ==
    CASE newLock = "place" ->
            ~ ( interactionStatus.viewId # Undefined
                /\ ( interactionStatus.viewId # newViewId
                     \/ interactionStatus.lock # "place" ) )
      [] newLock = "load" ->
            ~ ( \/ ( interactionStatus.lock = "load"
                     /\ interactionStatus.sourceHash = sourceHash )
                \/ ( interactionStatus.lock = "place"
                     /\ interactionStatus.viewId # newViewId ) )

\* variant: the view that holds the "load" lock may request the same
\* file again
LockAvailable_HolderReloads(newLock, newViewId, sourceHash) ==
    CASE newLock = "place" ->
            ~ ( interactionStatus.viewId # Undefined
                /\ ( interactionStatus.viewId # newViewId
                     \/ interactionStatus.lock # "place" ) )
      [] newLock = "load" ->
            ~ ( interactionStatus.lock = "load"
                /\ interactionStatus.sourceHash = sourceHash
                /\ interactionStatus.viewId # newViewId )

\* variant: "place" is granted whenever the current lock is "place",
\* whoever holds it
LockAvailable_AnyPlaceHolder(newLock, newViewId, sourceHash) ==
    CASE newLock = "place" ->
            ~ ( interactionStatus.viewId # Undefined
                /\ interactionStatus.lock # "place" )
      [] newLock = "load" ->
            ~ ( interactionStatus.lock = "load"
                /\ interactionStatus.sourceHash = sourceHash )

\* the value applyLockIfAvailable returns for a request of view v
LockAvailable(newLock, newViewId, sourceHash) ==
    CASE newLock = "place" ->
            ~ ( interactionStatus.viewId # Undefined
                /\ ( interactionStatus.viewId # newViewId
                     \/ interactionStatus.lock # "place" ) )
      [] newLock = "load" ->
            ~ ( interactionStatus.lock = "load"
                /\ interactionStatus.sourceHash = sourceHash )

\* the interactionStatus and the pending future messages it leaves.
\* futures holds the due times of the pending checkInteractionStatus
\* messages; two of them due at the same instant act as one, since the
\* first leaves no lock with time = now - PLACE_TIMEOUT for the second.
\* variant: a rejected request restarts the lease of the holder
applyLockIfAvailable_RejectionRefreshes(newLock, newViewId, sourceHash) ==
    IF LockAvailable(newLock, newViewId, sourceHash)
    THEN /\ interactionStatus' =
                [viewId |-> newViewId, lock |-> newLock,
                 sourceHash |-> sourceHash, time |-> now]
         /\ futures' = IF newLock = "place"
                       THEN futures \cup {now + PLACE_TIMEOUT}
                       ELSE futures
    ELSE /\ interactionStatus' = [interactionStatus EXCEPT !.time = now]
         /\ UNCHANGED futures

applyLockIfAvailable(newLock, newViewId, sourceHash) ==
    IF LockAvailable(newLock, newViewId, sourceHash)
    THEN /\ interactionStatus' =
                [viewId |-> newViewId, lock |-> newLock,
                 sourceHash |-> sourceHash, time |-> now]
         /\ futures' = IF newLock = "place"
                       THEN futures \cup {now + PLACE_TIMEOUT}
                       ELSE futures
    ELSE UNCHANGED <<interactionStatus, futures>>

\* variant: the release forgets the holder and keeps the rest
releaseInteractionStatus_KeepsLock ==
    interactionStatus' = [interactionStatus EXCEPT !.viewId = Undefined]

releaseInteractionStatus ==
    interactionStatus' = EmptyStatus

\* every handler records the message it handles and the lock it found
Handling(op, data) ==
    /\ lastMsg' = [op |-> op, data |-> data]
    /\ before' = interactionStatus

\* ------------------------------------------------------------- handlers
\* variant: an approved request already names the open document
requestLoad_OpensDocument(data) ==
    /\ Handling("requestLoad", data)
    /\ applyLockIfAvailable("load", data.viewId, data.sourceHash)
    /\ IF LockAvailable("load", data.viewId, data.sourceHash)
       THEN /\ published' = <<Event("load", "approved", data)>>
            /\ approvedHash' = data.sourceHash
            /\ docSourceHash' = data.sourceHash
       ELSE /\ published' = <<>>
            /\ UNCHANGED <<approvedHash, docSourceHash>>
    /\ UNCHANGED <<scroll, relativeScale, pagesRotation, scrollMode,
                   knownHandles, now>>

requestLoad(data) ==
    /\ Handling("requestLoad", data)
    /\ applyLockIfAvailable("load", data.viewId, data.sourceHash)
    /\ IF LockAvailable("load", data.viewId, data.sourceHash)
       THEN /\ published' = <<Event("load", "approved", data)>>
            /\ approvedHash' = data.sourceHash
       ELSE /\ published' = <<>>
            /\ UNCHANGED approvedHash
    /\ UNCHANGED <<scroll, relativeScale, pagesRotation, scrollMode,
                   knownHandles, docSourceHash, now>>

\* variant: the scroll position survives the reset
resetPlaceParameters_KeepsScroll ==
    /\ UNCHANGED scroll
    /\ relativeScale' = "1"
    /\ pagesRotation' = 0
    /\ scrollMode' = 0

\* resetPlaceParameters, as the values it assigns
resetPlaceParameters ==
    /\ scroll' = [top |-> 0, left |-> 0]
    /\ relativeScale' = "1"
    /\ pagesRotation' = 0
    /\ scrollMode' = 0

\* variant: any pending load admits a load:start without userDescription
Superseded_AnyPendingLoad(data) ==
    /\ data.userDescription = Undefined
    /\ interactionStatus.lock # "load"

\* variant: the test is against the last approved load:request
Superseded_LatestRequest(data) ==
    /\ data.userDescription = Undefined
    /\ data.sourceHash # approvedHash

\* variant: the userDescription does not exempt the event
Superseded_NoOverride(data) ==
    data.sourceHash # interactionStatus.sourceHash

\* the supersession test of startLoad: TRUE when the event is ignored
Superseded(data) ==
    /\ data.userDescription = Undefined
    /\ data.sourceHash # interactionStatus.sourceHash

\* variant: only a handle that comes from an upload is registered
startLoad_RegistersUploadsOnly(data) ==
    /\ Handling("startLoad", data)
    /\ knownHandles' =
          IF data.sourceHash \in DOMAIN knownHandles
             \/ data.userDescription # Undefined
          THEN knownHandles
          ELSE [h \in DOMAIN knownHandles \cup {data.sourceHash} |->
                  IF h = data.sourceHash
                  THEN [handle |-> data.handle, name |-> data.name]
                  ELSE knownHandles[h]]
    /\ IF Superseded(data)
       THEN /\ published' = <<>>
            /\ UNCHANGED <<interactionStatus, scroll, relativeScale,
                           pagesRotation, scrollMode, docSourceHash>>
       ELSE /\ releaseInteractionStatus
            /\ resetPlaceParameters
            /\ docSourceHash' = data.sourceHash
            /\ published' =
                  <<Event("load", "ready",
                          [viewId |-> data.viewId,
                           sourceHash |-> data.sourceHash,
                           name |-> data.name,
                           userDescription |-> data.userDescription])>>
    /\ UNCHANGED <<now, futures, approvedHash>>

\* variant: a load:start that is dropped registers nothing
startLoad_RegistersIfAccepted(data) ==
    /\ Handling("startLoad", data)
    /\ knownHandles' =
          IF data.sourceHash \in DOMAIN knownHandles \/ Superseded(data)
          THEN knownHandles
          ELSE [h \in DOMAIN knownHandles \cup {data.sourceHash} |->
                  IF h = data.sourceHash
                  THEN [handle |-> data.handle, name |-> data.name]
                  ELSE knownHandles[h]]
    /\ IF Superseded(data)
       THEN /\ published' = <<>>
            /\ UNCHANGED <<interactionStatus, scroll, relativeScale,
                           pagesRotation, scrollMode, docSourceHash>>
       ELSE /\ releaseInteractionStatus
            /\ resetPlaceParameters
            /\ docSourceHash' = data.sourceHash
            /\ published' =
                  <<Event("load", "ready",
                          [viewId |-> data.viewId,
                           sourceHash |-> data.sourceHash,
                           name |-> data.name,
                           userDescription |-> data.userDescription])>>
    /\ UNCHANGED <<now, futures, approvedHash>>

\* variant: a load:start replaces the entry of a hash that is known
startLoad_Overwrites(data) ==
    /\ Handling("startLoad", data)
    /\ knownHandles' =
          [h \in DOMAIN knownHandles \cup {data.sourceHash} |->
             IF h = data.sourceHash
             THEN [handle |-> data.handle, name |-> data.name]
             ELSE knownHandles[h]]
    /\ IF Superseded(data)
       THEN /\ published' = <<>>
            /\ UNCHANGED <<interactionStatus, scroll, relativeScale,
                           pagesRotation, scrollMode, docSourceHash>>
       ELSE /\ releaseInteractionStatus
            /\ resetPlaceParameters
            /\ docSourceHash' = data.sourceHash
            /\ published' =
                  <<Event("load", "ready",
                          [viewId |-> data.viewId,
                           sourceHash |-> data.sourceHash,
                           name |-> data.name,
                           userDescription |-> data.userDescription])>>
    /\ UNCHANGED <<now, futures, approvedHash>>

startLoad(data) ==
    /\ Handling("startLoad", data)
    /\ knownHandles' =
          IF data.sourceHash \in DOMAIN knownHandles
          THEN knownHandles
          ELSE [h \in DOMAIN knownHandles \cup {data.sourceHash} |->
                  IF h = data.sourceHash
                  THEN [handle |-> data.handle, name |-> data.name]
                  ELSE knownHandles[h]]
    /\ IF Superseded(data)
       THEN /\ published' = <<>>
            /\ UNCHANGED <<interactionStatus, scroll, relativeScale,
                           pagesRotation, scrollMode, docSourceHash>>
       ELSE /\ releaseInteractionStatus
            /\ resetPlaceParameters
            /\ docSourceHash' = data.sourceHash
            /\ published' =
                  <<Event("load", "ready",
                          [viewId |-> data.viewId,
                           sourceHash |-> data.sourceHash,
                           name |-> data.name,
                           userDescription |-> data.userDescription])>>
    /\ UNCHANGED <<now, futures, approvedHash>>

applyPlace(data) ==
    /\ scroll' = [page |-> data.page, top |-> data.top, left |-> data.left]
    /\ relativeScale' = data.scale
    /\ pagesRotation' = data.rotation
    /\ scrollMode' = data.scrollMode
    /\ published' = <<Event("place", "update", [viewId |-> data.viewId])>>

setPlace(data) ==
    /\ Handling("setPlace", data)
    /\ applyLockIfAvailable("place", data.viewId, Undefined)
    /\ IF LockAvailable("place", data.viewId, Undefined)
       THEN applyPlace(data)
       ELSE /\ published' = <<>>
            /\ UNCHANGED <<scroll, relativeScale, pagesRotation, scrollMode>>
    /\ UNCHANGED <<knownHandles, docSourceHash, now, approvedHash>>

endInteraction(viewId) ==
    /\ Handling("endInteraction", [viewId |-> viewId])
    /\ IF interactionStatus.viewId = viewId
       THEN releaseInteractionStatus
       ELSE UNCHANGED interactionStatus
    /\ published' = <<>>
    /\ UNCHANGED <<scroll, relativeScale, pagesRotation, scrollMode,
                   knownHandles, docSourceHash, now, futures, approvedHash>>

\* variant: the model writes the approved rotation into its place
requestRotation_SetsRotation(data) ==
    /\ Handling("requestRotation", data)
    /\ applyLockIfAvailable("place", data.viewId, Undefined)
    /\ published' = IF LockAvailable("place", data.viewId, Undefined)
                    THEN <<Event("rotation", "approved", data)>>
                    ELSE <<>>
    /\ pagesRotation' = IF LockAvailable("place", data.viewId, Undefined)
                        THEN data.rotation
                        ELSE pagesRotation
    /\ UNCHANGED <<scroll, relativeScale, scrollMode,
                   knownHandles, docSourceHash, now, approvedHash>>

requestRotation(data) ==
    /\ Handling("requestRotation", data)
    /\ applyLockIfAvailable("place", data.viewId, Undefined)
    /\ published' = IF LockAvailable("place", data.viewId, Undefined)
                    THEN <<Event("rotation", "approved", data)>>
                    ELSE <<>>
    /\ UNCHANGED <<scroll, relativeScale, pagesRotation, scrollMode,
                   knownHandles, docSourceHash, now, approvedHash>>

requestScrollMode(data) ==
    /\ Handling("requestScrollMode", data)
    /\ applyLockIfAvailable("place", data.viewId, Undefined)
    /\ published' = IF LockAvailable("place", data.viewId, Undefined)
                    THEN <<Event("scrollMode", "approved", data)>>
                    ELSE <<>>
    /\ UNCHANGED <<scroll, relativeScale, pagesRotation, scrollMode,
                   knownHandles, docSourceHash, now, approvedHash>>

\* variant: the check releases a "place" lock whatever its time
checkInteractionStatus_AnyPlace ==
    /\ now \in futures
    /\ futures' = futures \ {now}
    /\ Handling("checkInteractionStatus", [due |-> now])
    /\ IF interactionStatus.lock = "place"
       THEN releaseInteractionStatus
       ELSE UNCHANGED interactionStatus
    /\ published' = <<>>
    /\ UNCHANGED <<scroll, relativeScale, pagesRotation, scrollMode,
                   knownHandles, docSourceHash, now, approvedHash>>

\* variant: the lease is tested with > instead of ===
checkInteractionStatus_Late ==
    /\ now \in futures
    /\ futures' = futures \ {now}
    /\ Handling("checkInteractionStatus", [due |-> now])
    /\ IF /\ interactionStatus.lock = "place"
          /\ now - interactionStatus.time > PLACE_TIMEOUT
       THEN releaseInteractionStatus
       ELSE UNCHANGED interactionStatus
    /\ published' = <<>>
    /\ UNCHANGED <<scroll, relativeScale, pagesRotation, scrollMode,
                   knownHandles, docSourceHash, now, approvedHash>>

\* the future message of a "place" grant, executed at its due time
checkInteractionStatus ==
    /\ now \in futures
    /\ futures' = futures \ {now}
    /\ Handling("checkInteractionStatus", [due |-> now])
    /\ IF /\ interactionStatus.lock = "place"
          /\ now - interactionStatus.time = PLACE_TIMEOUT
       THEN releaseInteractionStatus
       ELSE UNCHANGED interactionStatus
    /\ published' = <<>>
    /\ UNCHANGED <<scroll, relativeScale, pagesRotation, scrollMode,
                   knownHandles, docSourceHash, now, approvedHash>>

\* variant: the exit of a view releases its "place" lock only
onViewExit_PlaceOnly(viewId) ==
    /\ Handling("onViewExit", [viewId |-> viewId])
    /\ IF interactionStatus.viewId = viewId /\ interactionStatus.lock = "place"
       THEN releaseInteractionStatus
       ELSE UNCHANGED interactionStatus
    /\ published' = <<>>
    /\ UNCHANGED <<scroll, relativeScale, pagesRotation, scrollMode,
                   knownHandles, docSourceHash, now, futures, approvedHash>>

onViewExit(viewId) ==
    /\ Handling("onViewExit", [viewId |-> viewId])
    /\ IF interactionStatus.viewId = viewId
       THEN releaseInteractionStatus
       ELSE UNCHANGED interactionStatus
    /\ published' = <<>>
    /\ UNCHANGED <<scroll, relativeScale, pagesRotation, scrollMode,
                   knownHandles, docSourceHash, now, futures, approvedHash>>

\* virtual time passes; a future message is never skipped.  Events that
\* arrive at the instant a future message is due are handled before or
\* after it.
AdvanceTime ==
    /\ now \notin futures
    /\ now' = Min({now + TimeStep} \cup futures)
    /\ now' <= MaxTime
    /\ UNCHANGED <<interactionStatus, scroll, relativeScale, pagesRotation,
                   scrollMode, knownHandles, docSourceHash, futures, lastMsg,
                   published, before, approvedHash>>

\* ----------------------------------------------- the messages views send
\* load:request, from uploadFile
LoadRequests ==
    { [viewId |-> v, sourceHash |-> h, name |-> n,
       userDescription |-> getUserDescription(v)] :
      v \in Views, h \in Hashes, n \in Names }

\* load:start, from uploadFile (known handle: with userDescription) and
\* from onLoadApproved (after the upload: without)
LoadStarts ==
    { [viewId |-> v, sourceHash |-> h, handle |-> d, name |-> n,
       userDescription |-> IF o THEN getUserDescription(v) ELSE Undefined] :
      v \in Views, h \in Hashes, d \in Handles, n \in Names,
      o \in BOOLEAN }

PlaceSets ==
    { [viewId |-> v, page |-> p.page, top |-> p.top, left |-> p.left,
       scale |-> p.scale, rotation |-> p.rotation,
       scrollMode |-> p.scrollMode] : v \in Views, p \in Places }

RotationRequests == { [viewId |-> v, rotation |-> r] : v \in Views, r \in Rotations }

ScrollModeRequests == { [viewId |-> v, mode |-> m] : v \in Views, m \in ScrollModes }

\* the handlers of the model leave the views as they are
ClientsIdle == UNCHANGED clientVars

Next ==
    \/ (\E data \in LoadRequests : requestLoad(data)) /\ ClientsIdle
    \/ (\E data \in LoadStarts : startLoad(data)) /\ ClientsIdle
    \/ (\E data \in PlaceSets : setPlace(data)) /\ ClientsIdle
    \/ (\E v \in Views : endInteraction(v)) /\ ClientsIdle
    \/ (\E data \in RotationRequests : requestRotation(data)) /\ ClientsIdle
    \/ (\E data \in ScrollModeRequests : requestScrollMode(data)) /\ ClientsIdle
    \/ (\E v \in Views : onViewExit(v)) /\ ClientsIdle
    \/ checkInteractionStatus /\ ClientsIdle
    \/ AdvanceTime /\ ClientsIdle

Spec == Init /\ [][Next]_vars

\* ------------------------------------------------------------ properties
\* this step is the handling of a message of kind op
Handled(op) == now' = now /\ lastMsg'.op = op

\* =================================================== the place quantizer
\* Offsets are whole pixels; a local scale s is held in percent, so that
\* x * 10000 / s of the source is x * 1000000 / localScale here.

\* what the renderer can report: an offset within the first visible page
\* (negative in the gap above or left of the page), and a local scale
\* between the renderer's smallest and largest zoom
Offsets == (0 - 50) .. MaxOffset
LocalScales == {10, 25, 33, 80, 100, 120, 150, 333, 1000}

\* Math.round(a / b) for a >= 0, b > 0: halves round up
Round(a, b) == (a \div b) + (IF 2 * (a % b) >= b THEN 1 ELSE 0)

\* topUnity, leftUnity of publishPlaceIfNew
ToUnity(x, localScale) ==
    IF x <= 0 THEN x ELSE Round(x * 100, localScale)

\* variant: the offset at unity scale is what is sent
To10k_Unity(x, localScale) ==
    IF x <= 0 THEN x ELSE Round(x * 100, localScale)

\* top10k, left10k of publishPlaceIfNew
To10k(x, localScale) ==
    IF x <= 0 THEN x ELSE Round(x * 1000000, localScale)

\* the offset syncPlaceWithModel adds to the page's top or left
From10k(q, localScale) ==
    IF q <= 0 THEN q ELSE Round(q * localScale, 1000000)

\* the renderer reports an offset x at local scale s
QuantInit ==
    /\ ModelInit
    /\ inflight = <<>>
    /\ inbox = [v \in Views |-> <<>>]
    /\ view = [v \in Views |-> InitialView]
    /\ upload = [v \in Views |-> NoUpload]
    /\ \E x \in Offsets, s \in LocalScales :
          quant = [stage |-> "offset", x |-> x, scale |-> s, q |-> 0,
                   back |-> 0]
    /\ throttle = NoThrottle

\* publishPlaceIfNew computes the value it sends
quantize ==
    /\ quant.stage = "offset"
    /\ quant' = [quant EXCEPT !.stage = "sent",
                              !.q = To10k(quant.x, quant.scale)]
    /\ UNCHANGED <<modelVars, inflight, inbox, view, upload, throttle>>

\* syncPlaceWithModel computes the offset it scrolls to, at the same scale
restore ==
    /\ quant.stage = "sent"
    /\ quant' = [quant EXCEPT !.stage = "restored",
                              !.back = From10k(quant.q, quant.scale)]
    /\ UNCHANGED <<modelVars, inflight, inbox, view, upload, throttle>>

QuantNext == quantize \/ restore

SpecQ == QuantInit /\ [][QuantNext]_vars

\* ====================================================== views and places
\* The views publish events, which the model handles in the order of
\* inflight; what the model publishes waits in the inbox of every view.
\* A view reads the model (this.model) as it is when the view runs.

\* the session restored from persisted data with the document H1 open:
\* init calls restoreFromPersisted, which calls startLoad
RestoredInit ==
    /\ interactionStatus = EmptyStatus
    /\ scroll = DefaultPlace.scroll
    /\ relativeScale = DefaultPlace.relativeScale
    /\ pagesRotation = DefaultPlace.pagesRotation
    /\ scrollMode = DefaultPlace.scrollMode
    /\ knownHandles = [h \in {"H1"} |-> [handle |-> "d1", name |-> "a.pdf"]]
    /\ docSourceHash = "H1"
    /\ now = 0
    /\ futures = {}
    /\ lastMsg = [op |-> "startLoad",
                  data |-> [viewId |-> Undefined, sourceHash |-> "H1",
                            handle |-> "d1", name |-> "a.pdf",
                            userDescription |-> "recovered session"]]
    /\ published = <<Event("load", "ready",
                           [viewId |-> Undefined, sourceHash |-> "H1",
                            name |-> "a.pdf",
                            userDescription |-> "recovered session"])>>
    /\ before = EmptyStatus
    /\ approvedHash = Undefined

\* the scale the renderer of view v chooses for a relative scale: it
\* depends on the shared scale and on the width of the browser of v
ViewerScale(v, rel) ==
    LET shared == IF rel = "1.5" THEN 150 ELSE 100
    IN  IF v = "vA" THEN shared ELSE (shared * 80) \div 100

\* where the user of a view can scroll to: page, offsets in pixels
UserScrolls ==
    { [page |-> 3, top |-> 0, left |-> 0],
      [page |-> 2, top |-> 125, left |-> 0 - 40] }

\* variant: a place event may be published by the holder of any lock
okToPublish_AnyOwnLock(v, eventName) ==
    IF interactionStatus.lock = Undefined
    THEN TRUE
    ELSE CASE eventName = "place" -> interactionStatus.viewId = v
           [] eventName = "hash" ->
                 ~ ( interactionStatus.lock = "load"
                     /\ interactionStatus.viewId # v )
           [] OTHER -> TRUE

okToPublish(v, eventName) ==
    IF interactionStatus.lock = Undefined
    THEN TRUE
    ELSE CASE eventName = "place" ->
                 interactionStatus.viewId = v /\ interactionStatus.lock # "load"
           [] eventName = "hash" ->
                 ~ ( interactionStatus.lock = "load"
                     /\ interactionStatus.viewId # v )
           [] OTHER -> TRUE

\* the fields w of view v after syncPlaceWithModel
syncPlaceWithModel(v, w) ==
    LET s == ViewerScale(v, relativeScale)
        z == [w EXCEPT !.viewScrollMode = scrollMode,
                       !.viewRotation = pagesRotation,
                       !.viewRelativeScale = relativeScale,
                       !.localScale = s]
    IN  IF "page" \in DOMAIN scroll
        THEN [z EXCEPT !.page = scroll.page,
                       !.top = From10k(scroll.top, s),
                       !.left = From10k(scroll.left, s)]
        ELSE z

\* variant: a view that becomes inactive always takes the model's place
releaseUserActive_AlwaysSyncs(v, w) ==
    [syncPlaceWithModel(v, [w EXCEPT !.userIsActive = FALSE,
                                     !.interactionClash = FALSE])
       EXCEPT !.syncPlaceOnRelease = FALSE, !.deferredUpdate = FALSE]

\* the fields w of view v after releaseUserActive
releaseUserActive(v, w) ==
    LET z == [w EXCEPT !.userIsActive = FALSE, !.interactionClash = FALSE]
    IN  [(IF w.syncPlaceOnRelease THEN syncPlaceWithModel(v, z) ELSE z)
           EXCEPT !.syncPlaceOnRelease = FALSE, !.deferredUpdate = FALSE]

\* the fields w of a view after setOrExtendBusyState
setOrExtendBusyState(w) ==
    [w EXCEPT !.userIsActive = TRUE,
              !.syncPlaceOnRelease =
                  IF w.userIsActive THEN w.syncPlaceOnRelease ELSE FALSE,
              !.suppressionTimer = now + BUSY_TIMEOUT]

\* the views of the restored session have opened H1: onDocumentInit
ViewInit ==
    /\ RestoredInit
    /\ inflight = <<>>
    /\ inbox = [v \in Views |-> <<>>]
    /\ view = [v \in Views |-> syncPlaceWithModel(v, InitialView)]
    /\ upload = [v \in Views |-> [NoUpload EXCEPT !.docSourceHash = "H1"]]
    /\ quant = NoQuant
    /\ throttle = NoThrottle

\* the gestures the users have made
Gestures == view["vA"].gestures + view["vB"].gestures

docMouseDown(v) ==
    /\ ~ view[v].trackingMouseDrag
    /\ Gestures < MaxGestures
    /\ view' = [view EXCEPT ![v] =
                  [@ EXCEPT !.gestures = @ + 1,
                            !.suppressionTimer = NoTime,
                            !.trackingMouseDrag = TRUE,
                            !.userIsActive = TRUE,
                            !.syncPlaceOnRelease = FALSE]]
    /\ UNCHANGED <<modelVars, inflight, inbox, upload, quant, throttle>>

docMouseUp(v) ==
    /\ view[v].trackingMouseDrag
    /\ Len(inflight) < MaxInflight
    /\ inflight' = Append(inflight,
                          Event("scroll", "endInteraction", [viewId |-> v]))
    /\ view' = [view EXCEPT ![v] =
                  releaseUserActive(v, [@ EXCEPT !.trackingMouseDrag = FALSE])]
    /\ UNCHANGED <<modelVars, inbox, upload, quant, throttle>>

\* the user of view v scrolls the document to p
onScroll(v, p) ==
    /\ <<view[v].page, view[v].top, view[v].left>> # <<p.page, p.top, p.left>>
    /\ Gestures < MaxGestures
    /\ view' = [view EXCEPT ![v] =
                  LET moved == [@ EXCEPT !.gestures = @ + 1,
                                         !.page = p.page, !.top = p.top,
                                         !.left = p.left]
                      busy == IF moved.trackingMouseDrag
                              THEN moved
                              ELSE setOrExtendBusyState(moved)
                  IN  [busy EXCEPT !.publishPlace = TRUE]]
    /\ UNCHANGED <<modelVars, inflight, inbox, upload, quant, throttle>>

\* the throttled invocation scheduled by schedulePublishPlace
publishPlaceIfNew(v) ==
    LET w == view[v]
        topUnity == ToUnity(w.top, w.localScale)
        leftUnity == ToUnity(w.left, w.localScale)
        lastPlace == w.lastPublishedPlace
        unchanged ==
            /\ lastPlace # NoPlace
            /\ w.page = lastPlace.page
            /\ topUnity - lastPlace.top < 2 /\ lastPlace.top - topUnity < 2
            /\ leftUnity - lastPlace.left < 2 /\ lastPlace.left - leftUnity < 2
            /\ w.viewRelativeScale = lastPlace.scale
            /\ w.viewRotation = lastPlace.rotation
            /\ w.viewScrollMode = lastPlace.scrollMode
    IN  /\ w.publishPlace
        /\ IF ~ okToPublish(v, "place")
           THEN /\ view' = [view EXCEPT ![v] =
                      [@ EXCEPT !.publishPlace = FALSE,
                                !.interactionClash = TRUE]]
                /\ UNCHANGED inflight
           ELSE IF unchanged
           THEN /\ view' = [view EXCEPT ![v].publishPlace = FALSE]
                /\ UNCHANGED inflight
           ELSE /\ Len(inflight) < MaxInflight
                /\ view' = [view EXCEPT ![v] =
                      [@ EXCEPT !.publishPlace = FALSE,
                                !.lastPublishedPlace =
                                    [page |-> w.page, top |-> topUnity,
                                     left |-> leftUnity,
                                     scale |-> w.viewRelativeScale,
                                     rotation |-> w.viewRotation,
                                     scrollMode |-> w.viewScrollMode]]]
                /\ inflight' = Append(inflight,
                      Event("place", "set",
                            [viewId |-> v, page |-> w.page,
                             top |-> To10k(w.top, w.localScale),
                             left |-> To10k(w.left, w.localScale),
                             scale |-> w.viewRelativeScale,
                             rotation |-> w.viewRotation,
                             scrollMode |-> w.viewScrollMode]))
        /\ UNCHANGED <<modelVars, inbox, upload, quant, throttle>>

\* the suppression timer of view v fires
suppressionTimeout(v) ==
    /\ view[v].suppressionTimer # NoTime
    /\ view[v].suppressionTimer <= now
    /\ view' = [view EXCEPT ![v] =
                  releaseUserActive(v, [@ EXCEPT !.suppressionTimer = NoTime])]
    /\ UNCHANGED <<modelVars, inflight, inbox, upload, quant, throttle>>

\* variant: the view's own update clears its anti-duplication record too
onUpdatePlace_EchoClearsRecord(v) ==
    /\ inbox[v] # <<>>
    /\ Head(inbox[v]).scope = "place"
    /\ Head(inbox[v]).event = "update"
    /\ inbox' = [inbox EXCEPT ![v] = Tail(@)]
    /\ view' = [view EXCEPT ![v] =
                  IF Head(inbox[v]).data.viewId = v
                  THEN [@ EXCEPT !.interactionClash = FALSE,
                                 !.deferredUpdate = FALSE,
                                 !.lastPublishedPlace = NoPlace,
                                 !.syncPlaceOnRelease = FALSE]
                  ELSE IF @.userIsActive
                       THEN [@ EXCEPT !.lastPublishedPlace = NoPlace,
                                      !.interactionClash = TRUE,
                                      !.deferredUpdate = TRUE,
                                      !.syncPlaceOnRelease = TRUE]
                       ELSE syncPlaceWithModel(v,
                               [@ EXCEPT !.lastPublishedPlace = NoPlace])]
    /\ UNCHANGED <<modelVars, inflight, upload, quant, throttle>>

\* view v handles the place:update at the head of its inbox
onUpdatePlace(v) ==
    /\ inbox[v] # <<>>
    /\ Head(inbox[v]).scope = "place"
    /\ Head(inbox[v]).event = "update"
    /\ inbox' = [inbox EXCEPT ![v] = Tail(@)]
    /\ view' = [view EXCEPT ![v] =
                  IF Head(inbox[v]).data.viewId = v
                  THEN [@ EXCEPT !.interactionClash = FALSE,
                                 !.deferredUpdate = FALSE,
                                 !.syncPlaceOnRelease = FALSE]
                  ELSE IF @.userIsActive
                       THEN [@ EXCEPT !.lastPublishedPlace = NoPlace,
                                      !.interactionClash = TRUE,
                                      !.deferredUpdate = TRUE,
                                      !.syncPlaceOnRelease = TRUE]
                       ELSE syncPlaceWithModel(v,
                               [@ EXCEPT !.lastPublishedPlace = NoPlace])]
    /\ UNCHANGED <<modelVars, inflight, upload, quant, throttle>>

\* the user of view v asks its renderer for the rotation r
onRequestRotation(v, r) ==
    /\ Gestures < MaxGestures
    /\ Len(inflight) < MaxInflight
    /\ inflight' = Append(inflight,
                          Event("rotation", "request",
                                [viewId |-> v, rotation |-> r]))
    /\ view' = [view EXCEPT ![v] =
                  [setOrExtendBusyState(@) EXCEPT !.gestures = @ + 1]]
    /\ UNCHANGED <<modelVars, inbox, upload, quant, throttle>>

\* view v handles rotation:approved: the renderer of the view that asked
\* rotates the pages and reports it with beforerotationchange
onRotationApproved(v) ==
    /\ inbox[v] # <<>>
    /\ Head(inbox[v]).scope = "rotation"
    /\ Head(inbox[v]).event = "approved"
    /\ inbox' = [inbox EXCEPT ![v] = Tail(@)]
    /\ view' = [view EXCEPT ![v] =
                  IF Head(inbox[v]).data.viewId = v
                  THEN [@ EXCEPT !.viewRotation = Head(inbox[v]).data.rotation]
                  ELSE @]
    /\ UNCHANGED <<modelVars, inflight, upload, quant, throttle>>

\* the user of view v asks its renderer for the scroll mode m
onRequestScrollMode(v, m) ==
    /\ Gestures < MaxGestures
    /\ Len(inflight) < MaxInflight
    /\ inflight' = Append(inflight,
                          Event("scrollMode", "request",
                                [viewId |-> v, mode |-> m]))
    /\ view' = [view EXCEPT ![v] =
                  [setOrExtendBusyState(@) EXCEPT !.gestures = @ + 1]]
    /\ UNCHANGED <<modelVars, inbox, upload, quant, throttle>>

\* view v handles scrollMode:approved: the renderer of the view that
\* asked changes the mode and reports it with beforescrollmodechange
onScrollModeApproved(v) ==
    /\ inbox[v] # <<>>
    /\ Head(inbox[v]).scope = "scrollMode"
    /\ Head(inbox[v]).event = "approved"
    /\ inbox' = [inbox EXCEPT ![v] = Tail(@)]
    /\ view' = [view EXCEPT ![v] =
                  IF Head(inbox[v]).data.viewId = v
                  THEN [@ EXCEPT !.viewScrollMode = Head(inbox[v]).data.mode]
                  ELSE @]
    /\ UNCHANGED <<modelVars, inflight, upload, quant, throttle>>

\* the inbox q of a view after the model published evs; place:update is
\* subscribed oncePerFrame, so that only the latest one is kept
Enqueue(q, evs) ==
    IF evs = <<>>
    THEN q
    ELSE IF evs[1].scope = "place"
         THEN SelectSeq(q, LAMBDA e : e.scope # "place") \o evs
         ELSE q \o evs

\* the model handles the next event in flight with the handler subscribed
\* to its scope and name; an event nothing is subscribed to is dropped
Deliver ==
    /\ inflight # <<>>
    /\ \A v \in Views : Len(inbox[v]) < MaxInbox
    /\ inflight' = Tail(inflight)
    /\ LET m == Head(inflight)
       IN  CASE m.scope = "load" /\ m.event = "request" -> requestLoad(m.data)
             [] m.scope = "load" /\ m.event = "start" -> startLoad(m.data)
             [] m.scope = "place" /\ m.event = "set" -> setPlace(m.data)
             [] m.scope = "place" /\ m.event = "endInteraction" ->
                    endInteraction(m.data.viewId)
             [] m.scope = "rotation" /\ m.event = "request" ->
                    requestRotation(m.data)
             [] m.scope = "scrollMode" /\ m.event = "request" ->
                    requestScrollMode(m.data)
             [] OTHER ->
                    /\ Handling("unhandled", m)
                    /\ published' = <<>>
                    /\ UNCHANGED <<interactionStatus, scroll, relativeScale,
                                   pagesRotation, scrollMode, knownHandles,
                                   docSourceHash, now, futures, approvedHash>>
    /\ inbox' = [v \in Views |-> Enqueue(inbox[v], published')]
    /\ UNCHANGED <<view, upload, quant, throttle>>

\* the timers of the views that are running
Timers == { view[v].suppressionTimer : v \in Views } \ {NoTime}

\* time passes, up to the next future message or timer; the throttle of
\* publishPlace (33 ms) has run out before
Tick ==
    /\ now \notin futures \cup Timers
    /\ \A v \in Views : ~ view[v].publishPlace
    /\ now' = Min({now + TimeStep} \cup futures \cup Timers)
    /\ now' <= MaxViewTime
    /\ UNCHANGED <<interactionStatus, scroll, relativeScale, pagesRotation,
                   scrollMode, knownHandles, docSourceHash, futures, lastMsg,
                   published, before, approvedHash>>
    /\ UNCHANGED clientVars

ViewNext ==
    \/ \E v \in Views : docMouseDown(v)
    \/ \E v \in Views : docMouseUp(v)
    \/ \E v \in Views, p \in UserScrolls : onScroll(v, p)
    \/ \E v \in Views : publishPlaceIfNew(v)
    \/ \E v \in Views : suppressionTimeout(v)
    \/ \E v \in Views : onUpdatePlace(v)
    \/ Deliver
    \/ checkInteractionStatus /\ ClientsIdle
    \/ Tick

SpecView == ViewInit /\ [][ViewNext]_vars

\* the views within one quiet period, without the mouse: scrolls and
\* requests for a rotation or a scroll mode
RequestNext ==
    \/ \E v \in Views, p \in UserScrolls : onScroll(v, p)
    \/ \E v \in Views : publishPlaceIfNew(v)
    \/ \E v \in Views : onUpdatePlace(v)
    \/ \E v \in Views, r \in Rotations : onRequestRotation(v, r)
    \/ \E v \in Views : onRotationApproved(v)
    \/ \E v \in Views, m \in ScrollModes : onRequestScrollMode(v, m)
    \/ \E v \in Views : onScrollModeApproved(v)
    \/ Deliver

SpecRequest == ViewInit /\ [][RequestNext]_vars

\* ===================================================== views and uploads
\* the handle Data.store returns to view v for the bytes of a file: a new
\* handle for every view that stores them
StoreHandle(v, file) == "data " \o v \o " " \o file

\* the files the users have dropped
Drops == upload["vA"].drops + upload["vB"].drops

\* the fields w of a view after closeDocument
closeDocument(w) ==
    [w EXCEPT !.publishPlace = FALSE, !.localScale = 100,
              !.viewRelativeScale = "1.0", !.viewRotation = 0,
              !.viewScrollMode = 0, !.lastPublishedPlace = NoPlace]

\* the user of view v drops a displayable file whose bytes hash to h
uploadFile(v, h) ==
    /\ Drops < MaxDrops
    /\ IF h = upload[v].docSourceHash
       THEN /\ upload' = [upload EXCEPT ![v].activeUploader = NoUploader,
                                        ![v].drops = @ + 1]
            /\ UNCHANGED inflight
       ELSE /\ Len(inflight) < MaxInflight
            /\ upload' = [upload EXCEPT
                  ![v].activeUploader =
                      [id |-> upload[v].drops + 1, hash |-> h,
                       pdfHandle |-> Undefined],
                  ![v].drops = @ + 1]
            /\ inflight' = Append(inflight,
                  IF h \in DOMAIN knownHandles
                  THEN Event("load", "start",
                             [sourceHash |-> h, viewId |-> v,
                              handle |-> knownHandles[h].handle,
                              name |-> knownHandles[h].name,
                              userDescription |-> getUserDescription(v)])
                  ELSE Event("load", "request",
                             [sourceHash |-> h, viewId |-> v,
                              name |-> "a.pdf",
                              userDescription |-> getUserDescription(v)]))
    /\ UNCHANGED <<modelVars, inbox, view, quant, throttle>>

\* view v handles the load:approved at the head of its inbox; if it is
\* its own, getPDFHandle starts to store the file of the active uploader
onLoadApproved(v) ==
    /\ inbox[v] # <<>>
    /\ Head(inbox[v]).scope = "load"
    /\ Head(inbox[v]).event = "approved"
    /\ inbox' = [inbox EXCEPT ![v] = Tail(@)]
    /\ view' = [view EXCEPT ![v] =
                  closeDocument([@ EXCEPT !.trackingMouseDrag = FALSE])]
    /\ LET data == Head(inbox[v]).data
           uploader == upload[v].activeUploader
       IN  IF data.viewId # v \/ uploader.hash = Undefined
           THEN /\ upload' = [upload EXCEPT ![v].docSourceHash = Undefined]
                /\ UNCHANGED inflight
           ELSE IF uploader.pdfHandle = Undefined
           THEN /\ upload' = [upload EXCEPT
                      ![v].docSourceHash = Undefined,
                      ![v].activeUploader.pdfHandle = Null,
                      ![v].storing = @ \cup
                          {[id |-> uploader.id, file |-> uploader.hash,
                            sourceHash |-> data.sourceHash,
                            name |-> data.name]}]
                /\ UNCHANGED inflight
           ELSE /\ upload' = [upload EXCEPT
                      ![v].docSourceHash = Undefined,
                      ![v].returned = @ \cup
                          {[id |-> uploader.id,
                            handle |-> uploader.pdfHandle]}]
                /\ IF uploader.pdfHandle = Null
                   THEN UNCHANGED inflight
                   ELSE /\ Len(inflight) < MaxInflight
                        /\ inflight' = Append(inflight,
                              Event("load", "start",
                                    [viewId |-> v,
                                     sourceHash |-> data.sourceHash,
                                     handle |-> uploader.pdfHandle,
                                     name |-> data.name,
                                     userDescription |-> Undefined]))
    /\ UNCHANGED <<modelVars, quant, throttle>>

\* getPDFHandle of view v returns for the upload u: the file is stored
\* (ok) or its conversion failed
stored(v, u, ok) ==
    /\ u \in upload[v].storing
    /\ IF ok
       THEN /\ Len(inflight) < MaxInflight
            /\ upload' = [upload EXCEPT
                  ![v].storing = @ \ {u},
                  ![v].returned = @ \cup
                      {[id |-> u.id, handle |-> StoreHandle(v, u.file)]},
                  ![v].activeUploader.pdfHandle =
                      IF upload[v].activeUploader.id = u.id
                      THEN StoreHandle(v, u.file)
                      ELSE @]
            /\ inflight' = Append(inflight,
                  Event("load", "start",
                        [viewId |-> v, sourceHash |-> u.sourceHash,
                         handle |-> StoreHandle(v, u.file), name |-> u.name,
                         userDescription |-> Undefined]))
       ELSE /\ upload' = [upload EXCEPT
                  ![v].storing = @ \ {u},
                  ![v].returned = @ \cup {[id |-> u.id, handle |-> Null]}]
            /\ UNCHANGED inflight
    /\ UNCHANGED <<modelVars, inbox, view, quant, throttle>>

\* view v handles the load:ready at the head of its inbox and opens the
\* document: prepareForDocument, then onDocumentInit
onLoadReady(v) ==
    /\ inbox[v] # <<>>
    /\ Head(inbox[v]).scope = "load"
    /\ Head(inbox[v]).event = "ready"
    /\ inbox' = [inbox EXCEPT ![v] = Tail(@)]
    /\ upload' = [upload EXCEPT
          ![v].activeUploader = NoUploader,
          ![v].docSourceHash = Head(inbox[v]).data.sourceHash]
    /\ view' = [view EXCEPT ![v] = syncPlaceWithModel(v, @)]
    /\ UNCHANGED <<modelVars, inflight, quant, throttle>>

UploadNext ==
    \/ \E v \in Views, h \in Hashes : uploadFile(v, h)
    \/ \E v \in Views : onLoadApproved(v)
    \/ \E v \in Views : \E u \in upload[v].storing, ok \in BOOLEAN :
          stored(v, u, ok)
    \/ \E v \in Views : onLoadReady(v)
    \/ Deliver

SpecUpload == Init /\ [][UploadNext]_vars

\* ======================================================= publish throttle
\* variant: the function of the call that set the timer is kept
throttledInvoke_KeepsFirst(time) ==
    LET n == throttle.supplied + 1
        timeRemaining == IF throttle.lastInvoke # 0
                         THEN throttle.lastInvoke + time - throttle.clock
                         ELSE 0
        due == throttle.clock + (IF timeRemaining > 0 THEN timeRemaining ELSE 0)
    IN  /\ throttle.supplied < MaxCalls
        /\ throttle' =
              IF throttle.timeout # 0
              THEN [throttle EXCEPT !.supplied = n]
              ELSE [throttle EXCEPT !.supplied = n, !.fn = n, !.timeout = n,
                                    !.timers = @ \cup {[id |-> n, due |-> due]}]
        /\ UNCHANGED <<modelVars, inflight, inbox, view, upload, quant>>

\* throttledInvoke('publishPlace', time, fn), fn the function of this call
throttledInvoke(time) ==
    LET n == throttle.supplied + 1
        timeRemaining == IF throttle.lastInvoke # 0
                         THEN throttle.lastInvoke + time - throttle.clock
                         ELSE 0
        due == throttle.clock + (IF timeRemaining > 0 THEN timeRemaining ELSE 0)
    IN  /\ throttle.supplied < MaxCalls
        /\ throttle' =
              IF throttle.timeout # 0
              THEN [throttle EXCEPT !.supplied = n, !.fn = n]
              ELSE [throttle EXCEPT !.supplied = n, !.fn = n, !.timeout = n,
                                    !.timers = @ \cup {[id |-> n, due |-> due]}]
        /\ UNCHANGED <<modelVars, inflight, inbox, view, upload, quant>>

\* a local navigation change: onScroll, onViewerDrivenScroll
schedulePublishPlace == throttledInvoke(THROTTLE_MS)

\* the browser runs the function of the timer t, at its time or later
throttleTimeout(t) ==
    /\ t \in throttle.timers
    /\ t.due <= throttle.clock
    /\ throttle' = [throttle EXCEPT !.timers = @ \ {t},
                                    !.timeout = 0,
                                    !.lastInvoke = throttle.clock,
                                    !.invoked = @ + 1,
                                    !.ran = throttle.fn,
                                    !.ranAt = throttle.clock]
    /\ UNCHANGED <<modelVars, inflight, inbox, view, upload, quant>>

\* closeDocument: clearThrottledInvoke('publishPlace')
clearThrottledInvoke ==
    /\ throttle.fn # 0
    /\ throttle' = [throttle EXCEPT
                      !.timers = { t \in @ : t.id # throttle.timeout },
                      !.fn = 0, !.timeout = 0, !.lastInvoke = 0,
                      !.ranAt = NoTime]
    /\ UNCHANGED <<modelVars, inflight, inbox, view, upload, quant>>

\* d ms pass
ClockTick(d) ==
    /\ throttle.clock + d <= MaxClock
    /\ throttle' = [throttle EXCEPT !.clock = @ + d]
    /\ UNCHANGED <<modelVars, inflight, inbox, view, upload, quant>>

ThrottleNext ==
    \/ schedulePublishPlace
    \/ \E t \in throttle.timers : throttleTimeout(t)
    \/ clearThrottledInvoke
    \/ \E d \in ClockSteps : ClockTick(d)

SpecThrottle == Init /\ [][ThrottleNext]_vars

\* =================================================== persistence, restore
\* Data.toId and Data.fromId of the Croquet library: a handle as the
\* string that is persisted, and back
toId(handle) == "id:" \o handle
fromId(id) == CHOOSE d \in Handles : toId(d) = id

\* variant: only the handle of the open document is persisted
getPersistedData_OpenDocumentOnly ==
    [handles |->
        [h \in DOMAIN knownHandles \cap {docSourceHash} |->
           [id |-> toId(knownHandles[h].handle), name |-> knownHandles[h].name]],
     docSourceHash |-> docSourceHash]

getPersistedData ==
    [handles |->
        [h \in DOMAIN knownHandles |->
           [id |-> toId(knownHandles[h].handle), name |-> knownHandles[h].name]],
     docSourceHash |-> docSourceHash]

\* knownHandles after the loop of restoreFromPersisted
restoredHandles(handles) ==
    [h \in DOMAIN handles |->
       [handle |-> fromId(handles[h].id), name |-> handles[h].name]]

\* a new session starts from what this session persists: init with
\* persisted data, restoreFromPersisted and the load:start it replays on
\* the new model
restoreFromPersisted ==
    LET persisted == getPersistedData
        handles == restoredHandles(persisted.handles)
    IN  /\ lastMsg' = [op |-> "restoreFromPersisted", data |-> persisted]
        /\ before' = EmptyStatus
        /\ interactionStatus' = EmptyStatus
        /\ resetPlaceParameters
        /\ knownHandles' = handles
        /\ IF persisted.docSourceHash # Undefined
           THEN /\ docSourceHash' = persisted.docSourceHash
                /\ published' =
                      <<Event("load", "ready",
                              [viewId |-> Undefined,
                               sourceHash |-> persisted.docSourceHash,
                               name |-> handles[persisted.docSourceHash].name,
                               userDescription |-> "recovered session"])>>
           ELSE /\ docSourceHash' = Undefined
                /\ published' = <<>>
        /\ now' = 0
        /\ futures' = {}
        /\ approvedHash' = Undefined
        /\ UNCHANGED clientVars

RestoreNext ==
    \/ (\E data \in LoadRequests : requestLoad(data)) /\ ClientsIdle
    \/ (\E data \in LoadStarts : startLoad(data)) /\ ClientsIdle
    \/ (\E data \in PlaceSets : setPlace(data)) /\ ClientsIdle
    \/ restoreFromPersisted

SpecRestore == Init /\ [][RestoreNext]_vars

\* ============================================================ properties
\* the handler published something: the request was granted
Granted == published' # <<>>

PlaceRequestOps == {"setPlace", "requestRotation", "requestScrollMode"}

PlaceLock(v) ==
    [viewId |-> v, lock |-> "place", sourceHash |-> Undefined, time |-> now]

LoadLock(v, h) ==
    [viewId |-> v, lock |-> "load", sourceHash |-> h, time |-> now]

PlaceOf(data) ==
    [scroll |-> [page |-> data.page, top |-> data.top, left |-> data.left],
     relativeScale |-> data.scale, pagesRotation |-> data.rotation,
     scrollMode |-> data.scrollMode]

\* C1: in every reachable state there is one interaction lock with at most
\* one holder, and its kind is none exactly when its holder is empty.
C1_SingleLockHolder ==
    /\ interactionStatus.lock \in {Undefined, "place", "load"}
    /\ interactionStatus.viewId \in Views \cup {Undefined}
    /\ (interactionStatus.lock = Undefined) <=>
          (interactionStatus.viewId = Undefined)

\* a load request has just pre-empted the place lock of another view
C1_Witness ==
    /\ lastMsg.op = "requestLoad"
    /\ before.lock = "place"
    /\ interactionStatus.lock = "load"
    /\ before.viewId # interactionStatus.viewId

\* C2: while view a holds the place lock, the place changes only through
\* a's own place:set; a place:set of another view is rejected and leaves the
\* place unchanged; the check at the end of an unrefreshed lease frees the
\* lock, and a place:set that finds the lock free is granted and applied.
C2_Step ==
    /\ ( /\ interactionStatus.lock = "place"
         /\ interactionStatus'.lock = "place"
         /\ interactionStatus'.viewId = interactionStatus.viewId
         /\ PlaceState' # PlaceState )
       => /\ Handled("setPlace")
          /\ lastMsg'.data.viewId = interactionStatus.viewId
    /\ ( /\ Handled("setPlace")
         /\ interactionStatus.lock = "place"
         /\ interactionStatus.viewId # lastMsg'.data.viewId )
       => /\ ~ Granted
          /\ PlaceState' = PlaceState
          /\ interactionStatus' = interactionStatus
    /\ ( /\ Handled("checkInteractionStatus")
         /\ interactionStatus.lock = "place"
         /\ now = interactionStatus.time + PLACE_TIMEOUT )
       => interactionStatus' = EmptyStatus
    /\ ( Handled("setPlace") /\ interactionStatus = EmptyStatus )
       => /\ Granted
          /\ PlaceState' = PlaceOf(lastMsg'.data)
          /\ interactionStatus' = PlaceLock(lastMsg'.data.viewId)

C2_MutualExclusion == [][C2_Step]_vars

\* a place:set of one view was rejected under the place lock of another
C2_Witness ==
    /\ lastMsg.op = "setPlace"
    /\ before.lock = "place"
    /\ before.viewId # lastMsg.data.viewId
    /\ published = <<>>
    /\ interactionStatus = before
    /\ PlaceState # PlaceOf(lastMsg.data)

\* C3: a place:set, rotation:request or scrollMode:request of view c is
\* granted iff no lock is held or the lock is a place lock held by c; on
\* grant the lock becomes (c, place, now).
C3_Step ==
    ( now' = now /\ lastMsg'.op \in PlaceRequestOps ) =>
       /\ Granted <=>
             \/ interactionStatus.lock = Undefined
             \/ /\ interactionStatus.lock = "place"
                /\ interactionStatus.viewId = lastMsg'.data.viewId
       /\ Granted => interactionStatus' = PlaceLock(lastMsg'.data.viewId)
       /\ ~ Granted => interactionStatus' = interactionStatus

C3_PlaceGrant == [][C3_Step]_vars

\* the holder of a load lock had its own place-class request rejected
C3_Witness ==
    /\ lastMsg.op \in PlaceRequestOps
    /\ before.lock = "load"
    /\ before.viewId = lastMsg.data.viewId
    /\ published = <<>>
    /\ interactionStatus = before

\* C4: a load:request handled while a place lock is held always succeeds:
\* the lock becomes a load lock for its hash, held by the requester, and
\* load:approved is published.
C4_Step ==
    ( Handled("requestLoad") /\ interactionStatus.lock = "place" ) =>
       /\ interactionStatus' =
             LoadLock(lastMsg'.data.viewId, lastMsg'.data.sourceHash)
       /\ published' = <<Event("load", "approved", lastMsg'.data)>>

C4_LoadPreemptsPlace == [][C4_Step]_vars

\* a load request of one view replaced the place lock of another
C4_Witness ==
    /\ lastMsg.op = "requestLoad"
    /\ before.lock = "place"
    /\ before.viewId # lastMsg.data.viewId
    /\ interactionStatus.lock = "load"
    /\ interactionStatus.viewId = lastMsg.data.viewId
    /\ interactionStatus.sourceHash = lastMsg.data.sourceHash
    /\ Len(published) = 1

\* C5: a load:request for the hash of the active load lock is rejected,
\* whoever sends it: nothing is published and the lock is unchanged.
C5_Step ==
    ( /\ Handled("requestLoad")
      /\ interactionStatus.lock = "load"
      /\ interactionStatus.sourceHash = lastMsg'.data.sourceHash )
    => /\ published' = <<>>
       /\ interactionStatus' = interactionStatus

C5_DuplicateLoadRejected == [][C5_Step]_vars

\* the holder of the load lock asked for the same hash again, at a later
\* time, and was rejected
C5_Witness ==
    /\ lastMsg.op = "requestLoad"
    /\ before.lock = "load"
    /\ before.sourceHash = lastMsg.data.sourceHash
    /\ before.viewId = lastMsg.data.viewId
    /\ before.time < now
    /\ published = <<>>
    /\ interactionStatus = before

\* C6: a load:request for another hash than the pending load succeeds and
\* the load lock names the new hash; a load:start without userDescription
\* for a hash the load lock does not name is dropped: nothing is published
\* and the lock, the place and the open document are unchanged.
C6_Step ==
    /\ ( /\ Handled("requestLoad")
         /\ interactionStatus.lock = "load"
         /\ interactionStatus.sourceHash # lastMsg'.data.sourceHash )
       => /\ published' = <<Event("load", "approved", lastMsg'.data)>>
          /\ interactionStatus' =
                LoadLock(lastMsg'.data.viewId, lastMsg'.data.sourceHash)
    /\ ( /\ Handled("startLoad")
         /\ lastMsg'.data.userDescription = Undefined
         /\ interactionStatus.lock = "load"
         /\ interactionStatus.sourceHash # lastMsg'.data.sourceHash )
       => /\ published' = <<>>
          /\ interactionStatus' = interactionStatus
          /\ PlaceState' = PlaceState
          /\ docSourceHash' = docSourceHash

C6_SupersededLoadDropped == [][C6_Step]_vars

\* the load:start of a view whose load was superseded by the approved
\* request of another view, for another hash, was dropped
C6_Witness ==
    /\ lastMsg.op = "startLoad"
    /\ lastMsg.data.userDescription = Undefined
    /\ before.lock = "load"
    /\ before.sourceHash # lastMsg.data.sourceHash
    /\ before.sourceHash = approvedHash
    /\ before.viewId # lastMsg.data.viewId
    /\ lastMsg.data.sourceHash \in DOMAIN knownHandles
    /\ docSourceHash # lastMsg.data.sourceHash
    /\ published = <<>>
    /\ interactionStatus = before

\* C7 as stated: a load:start without userDescription is dropped iff its
\* hash differs from the hash of the last approved load:request, whatever
\* happened since that approval.
C7_Original ==
    ( lastMsg.op = "startLoad" /\ lastMsg.data.userDescription = Undefined )
    => ( (published = <<>>) <=> (lastMsg.data.sourceHash # approvedHash) )

\* C7 (amended): a load:start without userDescription is dropped iff no
\* load lock naming its hash is held when it is handled.  A held load lock
\* names the last approved hash, so a hash that differs from the last
\* approved one is always dropped; the last approved hash is accepted only
\* while that load lock is still held.
C7_Step ==
    /\ ( interactionStatus.lock = "load" =>
            interactionStatus.sourceHash = approvedHash )
    /\ ( Handled("startLoad") /\ lastMsg'.data.userDescription = Undefined )
       => /\ (published' = <<>>) <=>
                ~ ( /\ interactionStatus.lock = "load"
                    /\ interactionStatus.sourceHash =
                          lastMsg'.data.sourceHash )
          /\ lastMsg'.data.sourceHash # approvedHash => published' = <<>>

C7_Supersession == [][C7_Step]_vars

\* a load:start for the last approved hash was dropped, because the load
\* lock had been cleared since the approval
C7_Witness ==
    /\ lastMsg.op = "startLoad"
    /\ lastMsg.data.userDescription = Undefined
    /\ lastMsg.data.sourceHash = approvedHash
    /\ before.lock # "load"
    /\ published = <<>>
    /\ docSourceHash # lastMsg.data.sourceHash

\* C8: a load:start with a userDescription is always accepted, whatever the
\* lock: it clears the lock and its hash becomes the open document.
C8_Step ==
    ( Handled("startLoad") /\ lastMsg'.data.userDescription # Undefined )
    => /\ interactionStatus' = EmptyStatus
       /\ docSourceHash' = lastMsg'.data.sourceHash
       /\ Len(published') = 1
       /\ published'[1].event = "ready"

C8_OverrideAccepted == [][C8_Step]_vars

\* a load:start with userDescription was accepted over the load lock that
\* another view held for another hash
C8_Witness ==
    /\ lastMsg.op = "startLoad"
    /\ lastMsg.data.userDescription # Undefined
    /\ before.lock = "load"
    /\ before.sourceHash # lastMsg.data.sourceHash
    /\ before.viewId # lastMsg.data.viewId
    /\ interactionStatus = EmptyStatus
    /\ docSourceHash = lastMsg.data.sourceHash

\* C9: every accepted load:start (one with a userDescription, or for the
\* hash of the lock) leaves the lock empty, the place at its defaults, the
\* open document equal to its hash, and publishes exactly one load:ready
\* carrying that hash.
C9_Step ==
    ( /\ Handled("startLoad")
      /\ \/ lastMsg'.data.userDescription # Undefined
         \/ lastMsg'.data.sourceHash = interactionStatus.sourceHash )
    => /\ interactionStatus' = EmptyStatus
       /\ PlaceState' = DefaultPlace
       /\ docSourceHash' = lastMsg'.data.sourceHash
       /\ published' =
             <<Event("load", "ready",
                     [viewId |-> lastMsg'.data.viewId,
                      sourceHash |-> lastMsg'.data.sourceHash,
                      name |-> lastMsg'.data.name,
                      userDescription |-> lastMsg'.data.userDescription])>>

C9_AcceptedLoad == [][C9_Step]_vars

\* the load:start that follows an approved load:request was accepted
C9_Witness ==
    /\ lastMsg.op = "startLoad"
    /\ lastMsg.data.userDescription = Undefined
    /\ before.lock = "load"
    /\ before.sourceHash = lastMsg.data.sourceHash
    /\ interactionStatus = EmptyStatus
    /\ PlaceState = DefaultPlace
    /\ docSourceHash = lastMsg.data.sourceHash
    /\ Len(published) = 1

\* C10: a place lock granted at time t always has its check pending at
\* t + PLACE_TIMEOUT and time never passes that instant while it is held;
\* the passing of time and a check that runs before t + PLACE_TIMEOUT leave
\* the lock alone, and the check that runs at t + PLACE_TIMEOUT releases it.
C10_Lease ==
    interactionStatus.lock = "place" =>
       /\ now <= interactionStatus.time + PLACE_TIMEOUT
       /\ interactionStatus.time + PLACE_TIMEOUT \in futures

C10_Step ==
    /\ now' # now => interactionStatus' = interactionStatus
    /\ ( /\ Handled("checkInteractionStatus")
         /\ interactionStatus.lock = "place"
         /\ now < interactionStatus.time + PLACE_TIMEOUT )
       => interactionStatus' = interactionStatus
    /\ ( /\ Handled("checkInteractionStatus")
         /\ interactionStatus.lock = "place"
         /\ now = interactionStatus.time + PLACE_TIMEOUT )
       => interactionStatus' = EmptyStatus

C10_LeaseExpiry == [] C10_Lease /\ [][C10_Step]_vars

\* the check released, at t + PLACE_TIMEOUT, a place lock granted at a
\* time t > 0
C10_Witness ==
    /\ lastMsg.op = "checkInteractionStatus"
    /\ before.lock = "place"
    /\ before.time > 0
    /\ now = before.time + PLACE_TIMEOUT
    /\ interactionStatus = EmptyStatus

\* C11: a check that runs at an instant other than time + PLACE_TIMEOUT of
\* the lock it finds (the grant that scheduled it was refreshed or
\* superseded at a later time), or that finds a load lock or no lock,
\* changes nothing: a refreshed lease is never cut short and a load lock is
\* never released by a check.
C11_Step ==
    ( /\ Handled("checkInteractionStatus")
      /\ ~ ( /\ interactionStatus.lock = "place"
             /\ interactionStatus.time = now - PLACE_TIMEOUT ) )
    => /\ interactionStatus' = interactionStatus
       /\ PlaceState' = PlaceState
       /\ published' = <<>>

C11_StaleCheck == [][C11_Step]_vars

\* the check of a superseded grant ran while a later place grant or a load
\* lock was in force, and left it alone
C11_Witness ==
    /\ lastMsg.op = "checkInteractionStatus"
    /\ \/ before.lock = "place" /\ before.time > now - PLACE_TIMEOUT
       \/ before.lock = "load"
    /\ before.time > 0
    /\ interactionStatus = before

\* C12: the exit of the view that holds the lock (place or load) empties
\* the lock at once, so that the place:set of another view handled next is
\* granted; the exit of any other view leaves the lock unchanged.
C12_Step ==
    /\ Handled("onViewExit") =>
          interactionStatus' =
             IF interactionStatus.viewId = lastMsg'.data.viewId
             THEN EmptyStatus
             ELSE interactionStatus
    /\ ( /\ lastMsg.op = "onViewExit"
         /\ before.viewId = lastMsg.data.viewId
         /\ Handled("setPlace") )
       => /\ Granted
          /\ interactionStatus' = PlaceLock(lastMsg'.data.viewId)
          /\ PlaceState' = PlaceOf(lastMsg'.data)

C12_Disconnect == [][C12_Step]_vars

\* the holder of a load lock left and the lock was emptied
C12_Witness ==
    /\ lastMsg.op = "onViewExit"
    /\ before.lock = "load"
    /\ before.viewId = lastMsg.data.viewId
    /\ interactionStatus = EmptyStatus

\* C13: place:endInteraction of view c empties the lock iff it is a place
\* lock held by c and leaves it unchanged otherwise (a load lock of c
\* included); it never changes the place, the known handles or the open
\* document.
C13_Step ==
    Handled("endInteraction") =>
       /\ interactionStatus' =
             IF /\ interactionStatus.lock = "place"
                /\ interactionStatus.viewId = lastMsg'.data.viewId
             THEN EmptyStatus
             ELSE interactionStatus
       /\ PlaceState' = PlaceState
       /\ knownHandles' = knownHandles
       /\ docSourceHash' = docSourceHash

C13_EndInteraction == [][C13_Step]_vars

\* C15: the known handles only grow: the entry of a hash, once present, is
\* never overwritten and never deleted.
C15_Step ==
    \A h \in DOMAIN knownHandles :
       /\ h \in DOMAIN knownHandles'
       /\ knownHandles'[h] = knownHandles[h]

C15_FirstWriterWins == [][C15_Step]_vars

\* a load:start was accepted for a known hash with another handle than the
\* one registered, and the entry kept the first handle
C15_Witness ==
    /\ lastMsg.op = "startLoad"
    /\ lastMsg.data.sourceHash \in DOMAIN knownHandles
    /\ knownHandles[lastMsg.data.sourceHash].handle # lastMsg.data.handle
    /\ docSourceHash = lastMsg.data.sourceHash
    /\ published # <<>>

\* C19 as stated: a granted rotation:request (scrollMode:request) writes the
\* requested value into the rotation (scroll mode) of the model's place,
\* leaves the other place fields unchanged and publishes its own approval
\* and no place:update.
C19_OriginalStep ==
    /\ ( Handled("requestRotation") /\ Granted ) =>
          /\ PlaceState' =
                [PlaceState EXCEPT !.pagesRotation = lastMsg'.data.rotation]
          /\ published' = <<Event("rotation", "approved", lastMsg'.data)>>
    /\ ( Handled("requestScrollMode") /\ Granted ) =>
          /\ PlaceState' =
                [PlaceState EXCEPT !.scrollMode = lastMsg'.data.mode]
          /\ published' = <<Event("scrollMode", "approved", lastMsg'.data)>>

C19_Original == [][C19_OriginalStep]_vars

\* C19 (amended): a granted rotation:request (scrollMode:request) takes the
\* place lock and publishes its own approval, carrying the requested value,
\* and no place:update; it leaves every field of the model's place
\* unchanged, the rotation and the scroll mode included.
C19_Step ==
    /\ ( Handled("requestRotation") /\ Granted ) =>
          /\ PlaceState' = PlaceState
          /\ interactionStatus' = PlaceLock(lastMsg'.data.viewId)
          /\ published' = <<Event("rotation", "approved", lastMsg'.data)>>
    /\ ( Handled("requestScrollMode") /\ Granted ) =>
          /\ PlaceState' = PlaceState
          /\ interactionStatus' = PlaceLock(lastMsg'.data.viewId)
          /\ published' = <<Event("scrollMode", "approved", lastMsg'.data)>>

C19_ApprovalOnly == [][C19_Step]_vars

\* a rotation was approved and the model's rotation is not the approved one
C19_Witness ==
    /\ lastMsg.op = "requestRotation"
    /\ published = <<Event("rotation", "approved", lastMsg.data)>>
    /\ interactionStatus.lock = "place"
    /\ interactionStatus.viewId = lastMsg.data.viewId
    /\ pagesRotation # lastMsg.data.rotation

\* C18: an offset x > 0 sent as round(x * 10000 / s) and restored at the
\* same scale as round(q * s / 10000) is within 1 of x; an offset <= 0 is
\* sent and restored unchanged.
C18_RoundTrip ==
    quant.stage = "restored" =>
       /\ quant.back - quant.x <= 1
       /\ quant.x - quant.back <= 1
       /\ quant.x <= 0 => ( quant.q = quant.x /\ quant.back = quant.x )

\* a positive offset whose quotient was rounded went through both
\* conversions
C18_Witness ==
    /\ quant.stage = "restored"
    /\ quant.x > 0
    /\ quant.q * quant.scale # quant.x * 1000000
    /\ quant.q > quant.x

\* the model takes the next event in flight, published by view v under
\* the name event
Taken(event, v) ==
    /\ inflight # <<>>
    /\ inflight' = Tail(inflight)
    /\ Head(inflight).event = event
    /\ Head(inflight).data.viewId = v

\* the event the model took last was the end of an interaction of view v,
\* which held the place lock then
EndTaken(v) ==
    /\ before.lock = "place"
    /\ before.viewId = v
    /\ \/ lastMsg.op = "endInteraction" /\ lastMsg.data.viewId = v
       \/ /\ lastMsg.op = "unhandled"
          /\ lastMsg.data.event = "endInteraction"
          /\ lastMsg.data.data.viewId = v

\* C14: when the model takes the event a view published at mouse-up and
\* that view holds the place lock, the lock is emptied at once; the
\* place:set of another view the model takes next is granted.
C14_Step ==
    \A c \in Views :
       /\ ( /\ Taken("endInteraction", c)
            /\ interactionStatus.lock = "place"
            /\ interactionStatus.viewId = c )
          => interactionStatus' = EmptyStatus
       /\ \A d \in Views \ {c} :
             ( EndTaken(c) /\ Taken("set", d) )
             => /\ published' # <<>>
                /\ interactionStatus'.viewId = d

C14_MouseUpReleases == [][C14_Step]_vars

\* nothing is on its way and no view is active
Quiescent ==
    /\ inflight = <<>>
    /\ \A v \in Views :
          /\ inbox[v] = <<>>
          /\ ~ view[v].userIsActive
          /\ ~ view[v].trackingMouseDrag
          /\ ~ view[v].publishPlace
          /\ view[v].suppressionTimer = NoTime

\* view v displays the model's place: syncPlaceWithModel would change
\* nothing
ViewInSync(v) == syncPlaceWithModel(v, view[v]) = view[v]

\* C20: once nothing is on its way and every view is inactive, every view
\* displays the model's place, a view whose own navigation was skipped
\* or rejected included.
C20_Convergence == Quiescent => \A v \in Views : ViewInSync(v)

\* the event a view published in this step, if it published one
Sent == inflight'[Len(inflight')]

\* C16: once a hash is in the known handles, a view that drops a file with
\* that hash publishes load:start with its description and the registered
\* handle, no load:request for that hash is approved and no view starts to
\* store a file with that hash.
C16_Step ==
    \A v \in Views :
       /\ ( /\ upload'[v].drops > upload[v].drops
            /\ upload'[v].activeUploader.hash \in DOMAIN knownHandles )
          => /\ Len(inflight') = Len(inflight) + 1
             /\ Sent.event = "start"
             /\ Sent.data.userDescription # Undefined
             /\ Sent.data.handle =
                   knownHandles[upload'[v].activeUploader.hash].handle
       /\ ( /\ Taken("request", v)
            /\ Head(inflight).data.sourceHash \in DOMAIN knownHandles )
          => published' = <<>>
       /\ \A u \in upload'[v].storing \ upload[v].storing :
             u.sourceHash \notin DOMAIN knownHandles

C16_CacheHit == [][C16_Step]_vars

\* no event is on its way and no file is being stored
UploadsDone ==
    /\ inflight = <<>>
    /\ \A v \in Views : inbox[v] = <<>> /\ upload[v].storing = {}

\* C17: when two views drop one file each, with the same bytes, before
\* the hash is known, one load:request is approved and the other is
\* rejected: the request of view d is rejected if that of view c has been
\* approved (c has begun to store its file); afterwards both views have
\* open the document the model has open, from the one entry of the known
\* handles.
C17_Step ==
    /\ \A c \in Views : \A d \in Views \ {c} :
          ( /\ Taken("request", d)
            /\ upload[c].drops = 1 /\ upload[d].drops = 1
            /\ upload[c].activeUploader.hash = Head(inflight).data.sourceHash
            /\ upload[c].activeUploader.pdfHandle # Undefined )
          => published' = <<>>
    /\ ( UploadsDone' /\ docSourceHash' # Undefined )
       => \A v \in Views :
             /\ upload'[v].docSourceHash = docSourceHash'
             /\ docSourceHash' \in DOMAIN knownHandles'

C17_OneApproval == [][C17_Step]_vars

\* C21: the open document changes only when a load:start is accepted, and
\* then to the hash of that load:start; every other handler, a dropped
\* load:start and the passing of time leave it unchanged.
C21_Step ==
    docSourceHash' # docSourceHash =>
       /\ Handled("startLoad")
       /\ published' # <<>>
       /\ docSourceHash' = lastMsg'.data.sourceHash

C21_DocumentIdentity == [][C21_Step]_vars

\* a load:request for another file than the open one was approved and the
\* open document stayed
C21_Witness ==
    /\ lastMsg.op = "requestLoad"
    /\ published # <<>>
    /\ docSourceHash # Undefined
    /\ docSourceHash # lastMsg.data.sourceHash

\* the request that is handled next is one the lock rejects: a place,
\* rotation or scroll-mode request while another view holds the lock or
\* the lock is "load", a load:request for the hash of the "load" lock
C22_Rejected ==
    \/ /\ \E op \in PlaceRequestOps : Handled(op)
       /\ interactionStatus.lock # Undefined
       /\ \/ interactionStatus.viewId # lastMsg'.data.viewId
          \/ interactionStatus.lock = "load"
    \/ /\ Handled("requestLoad")
       /\ interactionStatus.lock = "load"
       /\ interactionStatus.sourceHash = lastMsg'.data.sourceHash

\* C22: a rejected place:set, rotation:request, scrollMode:request or
\* load:request publishes nothing, leaves the lock (its time included),
\* the place, the known handles and the open document unchanged and
\* schedules no check.
C22_Step ==
    C22_Rejected =>
       /\ published' = <<>>
       /\ interactionStatus' = interactionStatus
       /\ PlaceState' = PlaceState
       /\ knownHandles' = knownHandles
       /\ docSourceHash' = docSourceHash
       /\ futures' = futures

C22_SilentRejection == [][C22_Step]_vars

\* a place:set of another view was rejected later than the grant of the
\* holder, whose lease kept its time
C22_Witness ==
    /\ lastMsg.op = "setPlace"
    /\ published = <<>>
    /\ before.lock = "place"
    /\ before.viewId # lastMsg.data.viewId
    /\ before.time < now
    /\ interactionStatus = before

\* C29: a load:start whose hash is not known registers its handle and
\* name, also when it is dropped as superseded; a dropped load:start
\* changes nothing else and publishes nothing.
C29_Step ==
    Handled("startLoad") =>
       /\ lastMsg'.data.sourceHash \notin DOMAIN knownHandles =>
             /\ DOMAIN knownHandles' =
                   DOMAIN knownHandles \cup {lastMsg'.data.sourceHash}
             /\ knownHandles'[lastMsg'.data.sourceHash] =
                   [handle |-> lastMsg'.data.handle,
                    name |-> lastMsg'.data.name]
       /\ ( /\ lastMsg'.data.userDescription = Undefined
            /\ lastMsg'.data.sourceHash # interactionStatus.sourceHash )
          => /\ published' = <<>>
             /\ interactionStatus' = interactionStatus
             /\ PlaceState' = PlaceState
             /\ docSourceHash' = docSourceHash
             /\ \A h \in DOMAIN knownHandles :
                   /\ h \in DOMAIN knownHandles'
                   /\ knownHandles'[h] = knownHandles[h]

C29_DroppedLoadRegisters == [][C29_Step]_vars

\* no load:start was ever accepted, the last one was dropped, and its
\* hash is known with its handle
C29_Witness ==
    /\ lastMsg.op = "startLoad"
    /\ published = <<>>
    /\ docSourceHash = Undefined
    /\ lastMsg.data.sourceHash \in DOMAIN knownHandles
    /\ knownHandles[lastMsg.data.sourceHash].handle = lastMsg.data.handle

\* C30: a place:set is granted exactly when okToPublish("place") of the
\* sending view is true on the lock the model holds when it handles it.
C30_Step ==
    Handled("setPlace") =>
       ( Granted <=> okToPublish(lastMsg'.data.viewId, "place") )

C30_PreflightAgrees == [][C30_Step]_vars

\* the holder of a "load" lock sent a place:set, which was rejected, as
\* the pre-flight check of that view says
C30_Witness ==
    /\ lastMsg.op = "setPlace"
    /\ before.lock = "load"
    /\ before.viewId = lastMsg.data.viewId
    /\ interactionStatus = before
    /\ published = <<>>
    /\ ~ okToPublish(lastMsg.data.viewId, "place")

\* C23: the model of a session started from the data this model persists
\* has the same known handles (hashes, handles, names) and the same open
\* document; if a document is open, the replayed load:start is accepted:
\* the lock is empty, the place is the default one and one load:ready is
\* published.
C23_Step ==
    lastMsg'.op = "restoreFromPersisted" =>
       /\ knownHandles' = knownHandles
       /\ docSourceHash' = docSourceHash
       /\ docSourceHash # Undefined =>
             /\ interactionStatus' = EmptyStatus
             /\ PlaceState' = DefaultPlace
             /\ Len(published') = 1
             /\ published'[1].event = "ready"
             /\ published'[1].data.sourceHash = docSourceHash
             /\ published'[1].data.userDescription # Undefined

C23_SnapshotRoundTrip == [][C23_Step]_vars

\* a session was restored with a document open and a second file known
C23_Witness ==
    /\ lastMsg.op = "restoreFromPersisted"
    /\ docSourceHash # Undefined
    /\ DOMAIN knownHandles = Hashes
    /\ published # <<>>

\* view v takes from its inbox a place:update that names v or, with
\* own = FALSE, another view
UpdateTaken(v, own) ==
    /\ inbox[v] # <<>>
    /\ Head(inbox[v]).event = "update"
    /\ (Head(inbox[v]).data.viewId = v) = own
    /\ inbox'[v] = Tail(inbox[v])
    /\ inflight' = inflight

\* C25: a place:update that names the view that receives it changes
\* nothing of that view (position, scale, rotation, scroll mode,
\* lastPublishedPlace, activity) but the clash warning and the
\* syncPlaceOnRelease flag, which are cleared.
C25_Step ==
    \A v \in Views :
       UpdateTaken(v, TRUE) =>
          view'[v] = [view[v] EXCEPT !.interactionClash = FALSE,
                                     !.deferredUpdate = FALSE,
                                     !.syncPlaceOnRelease = FALSE]

C25_SelfEcho == [][C25_Step]_vars

\* a view has handled its own update while it had a record of what it
\* published and a deferred update of another view pending
C25_Witness ==
    \E v \in Views :
       /\ lastMsg.op = "setPlace"
       /\ lastMsg.data.viewId = v
       /\ published # <<>>
       /\ inbox[v] = <<>>
       /\ view[v].lastPublishedPlace # NoPlace
       /\ view[v].userIsActive
       /\ view[v].interactionClash = FALSE

\* what the renderer of a view displays
Renderer(w) ==
    <<w.page, w.top, w.left, w.localScale, w.viewRelativeScale,
      w.viewRotation, w.viewScrollMode>>

\* C24: a place:update of another view that an active view handles leaves
\* what its renderer displays; and a view that becomes inactive after it
\* deferred such an update displays the model's place from then on.
C24_Step ==
    \A v \in Views :
       /\ UpdateTaken(v, FALSE) /\ view[v].userIsActive =>
             /\ Renderer(view'[v]) = Renderer(view[v])
             /\ view'[v].userIsActive
       /\ view[v].deferredUpdate /\ view[v].userIsActive
             /\ ~ view'[v].userIsActive => ViewInSync(v)'

C24_DeferredApplied == [][C24_Step]_vars

\* C26: a view publishes place:set, rotation:request or scrollMode:request
\* only while the model's lock, as the view reads it, is not a load lock
\* and not a place lock of another view.
C26_Step ==
    \A v \in Views :
       ( /\ Len(inflight') = Len(inflight) + 1
         /\ Sent.data.viewId = v
         /\ Sent.scope \in {"place", "rotation", "scrollMode"} )
       => okToPublish(v, "place")

C26_Preflight == [][C26_Step]_vars

\* C28: a view starts to store a file only for an uploader that has not
\* tried before, and all the calls of getPDFHandle on one uploader have
\* returned the same handle, a call made while the file was being stored
\* included.
C28_Step ==
    \A v \in Views :
       /\ \A u \in upload'[v].storing \ upload[v].storing :
             /\ u.id = upload[v].activeUploader.id
             /\ upload[v].activeUploader.pdfHandle = Undefined
       /\ \A a, b \in upload'[v].returned : a.id = b.id => a.handle = b.handle

C28_Idempotence == [][C28_Step]_vars

\* C27: at most one timer of the publish throttle is pending; every
\* invocation runs the function of the latest call; and between two
\* invocations with no closeDocument between them at least 33 ms pass.
C27_Step ==
    /\ Cardinality(throttle'.timers) <= 1
    /\ throttle'.invoked = throttle.invoked + 1 =>
          /\ throttle'.ran = throttle.supplied
          /\ throttle.ranAt # NoTime =>
                throttle'.ranAt - throttle.ranAt >= THROTTLE_MS

C27_Throttle == [][C27_Step]_vars

\* a second invocation has run the function of a call that was made while
\* the timer was pending
C27_Witness ==
    /\ throttle.invoked >= 2
    /\ throttle.ran >= 3
    /\ throttle.ranAt # NoTime
    /\ throttle.timers = {}

\* C33: the hash of the open document has an entry in the known handles,
\* so that loadFromSourceHash finds its handle and name.
C33_OpenDocumentKnown ==
    docSourceHash # Undefined => docSourceHash \in DOMAIN knownHandles

\* a document is open while a load of a file that is not known yet is
\* pending
C33_Witness ==
    /\ docSourceHash # Undefined
    /\ interactionStatus.lock = "load"
    /\ interactionStatus.sourceHash # docSourceHash
    /\ interactionStatus.sourceHash \notin DOMAIN knownHandles

\* something is on its way that the model or a view will handle without
\* a further drop: an event in flight or in an inbox, or a file being
\* converted and stored
LoadPending ==
    \/ inflight # <<>>
    \/ \E v \in Views : inbox[v] # <<>> \/ upload[v].storing # {}

\* C32: a load lock is not left behind: while the model holds one,
\* something that leads to its release or replacement is on its way, also
\* after the conversion or the storing of the holder's file has failed.
C32_LoadLockNotStranded ==
    interactionStatus.lock = "load" => LoadPending

\* C31: the handle registered for a hash is one that a view got from
\* storing a file with that hash.
C31_HandlesMatchContent ==
    \A h \in DOMAIN knownHandles :
       \E v \in Views : knownHandles[h].handle = StoreHandle(v, h)

====
